---- MODULE Spec2Model ----
(***************************************************************************)
(* Model of main.py: the article ingestion and dual-rendering pipeline.    *)
(*                                                                         *)
(* Texts are TLA+ strings, so every length below is the length of the      *)
(* string the code builds (Python's len).  The bullet prefix character     *)
(* U+2022 is written "*" here: one character, as in the source.            *)
(***************************************************************************)
EXTENDS Integers, Sequences, FiniteSets, TLC

(***************************************************************************)
(* Bounds of the model.                                                    *)
(***************************************************************************)
\* longest content_list handed to append_to_google_doc in SpecBuild
MaxBlocks == 3
\* the clock takes the days StartDate .. StartDate + MaxClock
MaxClock == 1
\* most direct children of the content container of a page in SpecScrape
MaxTags == 3
\* most URLs fetch_article_urls returns in one run
MaxUrls == 2
\* number of runs of main
MaxRuns == 2

(***************************************************************************)
(* Text helpers: str(int), str * n, strftime.                              *)
(***************************************************************************)
Digit(d) == CASE d = 0 -> "0" [] d = 1 -> "1" [] d = 2 -> "2" [] d = 3 -> "3"
              [] d = 4 -> "4" [] d = 5 -> "5" [] d = 6 -> "6" [] d = 7 -> "7"
              [] d = 8 -> "8" [] d = 9 -> "9"

\* str(n) of a non-negative int, as an f-string formats it
RECURSIVE IntStr(_)
IntStr(n) == IF n < 10 THEN Digit(n) ELSE IntStr(n \div 10) \o Digit(n % 10)

\* c * n
RECURSIVE Repeat(_, _)
Repeat(c, n) == IF n <= 0 THEN ""
                ELSE IF n = 1 THEN c
                ELSE Repeat(c, n \div 2) \o Repeat(c, n - n \div 2)

\* zero-padded two-digit field (%d)
Pad2(n) == IF n < 10 THEN "0" \o Digit(n) ELSE IntStr(n)

\* %B
MonthName(m) == CASE m = 1 -> "January" [] m = 2 -> "February" [] m = 3 -> "March"
                  [] m = 4 -> "April" [] m = 5 -> "May" [] m = 6 -> "June"
                  [] m = 7 -> "July" [] m = 8 -> "August" [] m = 9 -> "September"
                  [] m = 10 -> "October" [] m = 11 -> "November" [] m = 12 -> "December"

\* datetime.strftime('%d %B %Y')
strftime_dBY(t) == Pad2(t.day) \o " " \o MonthName(t.month) \o " " \o IntStr(t.year)

\* datetime.strftime('%B %Y')
strftime_BY(t) == MonthName(t.month) \o " " \o IntStr(t.year)

(***************************************************************************)
(* The clock: datetime.now() returns a date that never goes back.  A clock *)
(* value is a number of days after StartDate.                              *)
(***************************************************************************)
StartDate == [day |-> 31, month |-> 5, year |-> 2024]

IsLeap(y) == (y % 4 = 0 /\ y % 100 # 0) \/ y % 400 = 0

DaysInMonth(m, y) == IF m = 2 THEN (IF IsLeap(y) THEN 29 ELSE 28)
                     ELSE IF m \in {4, 6, 9, 11} THEN 30 ELSE 31

NextDay(t) == IF t.day < DaysInMonth(t.month, t.year)
                THEN [t EXCEPT !.day = t.day + 1]
              ELSE IF t.month < 12
                THEN [day |-> 1, month |-> t.month + 1, year |-> t.year]
              ELSE [day |-> 1, month |-> 1, year |-> t.year + 1]

RECURSIVE DateOf(_)
DateOf(n) == IF n = 0 THEN StartDate ELSE NextDay(DateOf(n - 1))

ClockValues == 0..MaxClock

\* the four successive datetime.now() reads of one append_to_google_doc call
ClockReads == {r \in [1..4 -> ClockValues] : \A i \in 1..3 : r[i] <= r[i + 1]}

(***************************************************************************)
(* append_to_google_doc: the request list of one category document.        *)
(***************************************************************************)
BlockTypes == {"heading", "paragraph", "heading_2", "heading_4", "bullet_list", "numbered_list"}

TitleText(t) == "Current Affairs - " \o strftime_dBY(DateOf(t))

InsertText(index, text) == [op |-> "insertText", index |-> index, text |-> text]

UpdateTextStyle(startIndex, endIndex, style) ==
    [op |-> "updateTextStyle", startIndex |-> startIndex, endIndex |-> endIndex, style |-> style]

CreateParagraphBullets(startIndex, endIndex, preset) ==
    [op |-> "createParagraphBullets", startIndex |-> startIndex, endIndex |-> endIndex,
     style |-> preset]

\* the text inserted for one content block
BlockText(content) ==
    CASE content.type = "heading" -> content.text \o "\n"
      [] content.type = "paragraph" -> content.text \o "\n\n"
      [] content.type = "heading_2" -> content.text \o "\n"
      [] content.type = "heading_4" -> content.text \o "\n"
      [] content.type = "bullet_list" -> "* " \o content.text \o "\n"
      [] content.type = "numbered_list" -> IntStr(content.number) \o ". " \o content.text \o "\n"
      [] OTHER -> ""

\* BlockLen with the paragraph's second newline left out of the count
BlockLen_OneNewline(content) ==
    CASE content.type \in {"heading", "paragraph", "heading_2", "heading_4"} ->
            Len(content.text) + 1
      [] content.type = "bullet_list" -> Len("* " \o content.text) + 1
      [] content.type = "numbered_list" ->
            Len(IntStr(content.number) \o ". " \o content.text) + 1
      [] OTHER -> 0

\* the length the code computes for the style range and the index advance
BlockLen(content) ==
    CASE content.type = "heading" -> Len(content.text) + 1
      [] content.type = "paragraph" -> Len(content.text) + 2
      [] content.type = "heading_2" -> Len(content.text) + 1
      [] content.type = "heading_4" -> Len(content.text) + 1
      [] content.type = "bullet_list" -> Len("* " \o content.text) + 1
      [] content.type = "numbered_list" ->
            Len(IntStr(content.number) \o ". " \o content.text) + 1
      [] OTHER -> 0

\* the requests appended for one content block at the running index
BlockRequests(content, index) ==
    CASE content.type \in {"heading", "paragraph", "heading_2", "heading_4"} ->
            << InsertText(index, BlockText(content)),
               UpdateTextStyle(index, index + BlockLen(content), content.type) >>
      [] content.type = "bullet_list" ->
            << InsertText(index, BlockText(content)),
               CreateParagraphBullets(index, index + BlockLen(content), "BULLET_DISC_CIRCLE_SQUARE"),
               UpdateTextStyle(index, index + BlockLen(content), content.type) >>
      [] content.type = "numbered_list" ->
            << InsertText(index, BlockText(content)),
               CreateParagraphBullets(index, index + BlockLen(content), "NUMBERED_DECIMAL_ALPHA_ROMAN"),
               UpdateTextStyle(index, index + BlockLen(content), content.type) >>
      [] OTHER -> << >>

\* the for loop over content_list, from block i on
RECURSIVE ContentRequests(_, _, _)
ContentRequests(content_list, i, index) ==
    IF i > Len(content_list) THEN << >>
    ELSE BlockRequests(content_list[i], index)
           \o ContentRequests(content_list, i + 1, index + BlockLen(content_list[i]))

RECURSIVE ContentEnd(_, _, _)
ContentEnd(content_list, i, index) ==
    IF i > Len(content_list) THEN index
    ELSE ContentEnd(content_list, i + 1, index + BlockLen(content_list[i]))

\* title insert and title style; reads[2] builds the text, reads[3] the range
TitleRequests(reads) ==
    << InsertText(1, TitleText(reads[2]) \o "\n"),
       UpdateTextStyle(1, Len(TitleText(reads[3])) + 1, "title") >>

\* index after "index += len(title) + 1", computed from the fourth read
IndexAfterTitle(reads) == 1 + Len(TitleText(reads[4])) + 1

SeparatorLen == 51
TrailerLen == 53

SeparatorRequests(index) == << InsertText(index, Repeat("-", 50) \o "\n") >>

TrailerRequests(index) == << InsertText(index, "\n" \o Repeat("-", 50) \o "\n\n") >>

\* the batch submitted for one category, its document title and final index
append_to_google_doc(category, content_list, reads) ==
    LET i0 == IndexAfterTitle(reads)
        i1 == i0 + SeparatorLen
        i2 == ContentEnd(content_list, 1, i1)
    IN [ title |-> strftime_BY(DateOf(reads[1])) \o " - " \o category,
         requests |-> TitleRequests(reads) \o SeparatorRequests(i0)
                        \o ContentRequests(content_list, 1, i1) \o TrailerRequests(i2),
         index |-> i2 + TrailerLen ]

(***************************************************************************)
(* scrape_and_get_content: one article page to (content_list, category).   *)
(*                                                                         *)
(* A page is what the three lookups of the code see: whether the GET       *)
(* succeeded, whether the content div and the h1 were found, the featured  *)
(* image src ("None" when absent, "" when empty) and the direct children   *)
(* of the content div.  A child tag has a name, a class, its stripped      *)
(* text, its li texts                                                      *)
(* (ul, ol) and, for a p.small-font holding <b>Category:</b>, the text of  *)
(* its <a rel="tag"> ("None" without such a link).                         *)
(***************************************************************************)
Tag(name, class, text, items, link) ==
    [name |-> name, class |-> class, text |-> text, items |-> items, link |-> link]

\* a page whose GET failed, and the result of a failed scrape
NoPage == [fetch_ok |-> FALSE, main_content |-> FALSE, heading |-> FALSE,
           heading_text |-> "", image |-> "None", children |-> << >>]

NoArticle == [content_list |-> << >>, category |-> "None"]

\* translate_to_gujarati: the translation, or the text itself when the service fails
translate_to_gujarati(text, tr_ok) == IF tr_ok THEN "gu:" \o text ELSE text

RECURSIVE Join(_)
Join(items) == IF items = << >> THEN "" ELSE Head(items) \o Join(Tail(items))

\* tag.get_text().strip()
TagText(tag) == IF tag.name \in {"ul", "ol"} THEN Join(tag.items) ELSE tag.text

\* re.search(r'Category: (.+)', text): group(1).strip(), "None" without a match
CategoryMatch(text) ==
    CASE text = "Category: Polity" -> "Polity"
      [] text = "Category: Economy" -> "Economy"
      [] OTHER -> "None"

\* the first loop: p.small-font tags with a Category: label; the first one
\* with a tag link sets the category and ends the loop
RECURSIVE CategoryFromHtml(_, _)
CategoryFromHtml(children, i) ==
    IF i > Len(children) THEN "None"
    ELSE IF /\ children[i].name = "p"
            /\ children[i].class = "small-font"
            /\ children[i].link # "None"
         THEN children[i].link
         ELSE CategoryFromHtml(children, i + 1)

\* the fallback loop: the first child whose text matches Category: (.+)
RECURSIVE CategoryFromText(_, _)
CategoryFromText(children, i) ==
    IF i > Len(children) THEN "None"
    ELSE IF TagText(children[i]) # "" /\ CategoryMatch(TagText(children[i])) # "None"
         THEN CategoryMatch(TagText(children[i]))
         ELSE CategoryFromText(children, i + 1)

\* Python truth of a category or an image src: None and "" are both false
Truthy(category) == category # "None" /\ category # ""

\* the category the two loops leave: the fallback runs when the first loop
\* left None or "", and without a match in the fallback the value of the
\* first loop is what is returned
DetectCategory(children) ==
    LET from_html == CategoryFromHtml(children, 1)
        from_text == CategoryFromText(children, 1)
    IN IF Truthy(from_html) THEN from_html
       ELSE IF from_text # "None" THEN from_text
       ELSE from_html

Block(type, text) == [type |-> type, text |-> text]

NumberedBlock(text, number) == [type |-> "numbered_list", text |-> text, number |-> number]

HeadingBlock(text, image) == [type |-> "heading", text |-> text, image |-> image]

\* BulletItems with one block per li: the translated copy is not appended
RECURSIVE BulletItems_OriginalOnly(_, _)
BulletItems_OriginalOnly(items, tr_ok) ==
    IF items = << >> THEN << >>
    ELSE << Block("bullet_list", Head(items)) >>
           \o BulletItems_OriginalOnly(Tail(items), tr_ok)

\* the li loop of a ul
RECURSIVE BulletItems(_, _)
BulletItems(items, tr_ok) ==
    IF items = << >> THEN << >>
    ELSE << Block("bullet_list", translate_to_gujarati(Head(items), tr_ok)),
            Block("bullet_list", Head(items)) >>
           \o BulletItems(Tail(items), tr_ok)

\* the li loop of an ol, entered with the running numbered_list_counter
RECURSIVE NumberedItems(_, _, _)
NumberedItems(items, counter, tr_ok) ==
    IF items = << >> THEN << >>
    ELSE << NumberedBlock(translate_to_gujarati(Head(items), tr_ok), counter),
            NumberedBlock(Head(items), counter) >>
           \o NumberedItems(Tail(items), counter + 1, tr_ok)

\* the tags the content loop skips
Skipped(tag) ==
    \/ tag.class \in {"sharethis-inline-share-buttons", "prenext"}
    \/ TagText(tag) = ""
    \/ CategoryMatch(TagText(tag)) # "None"

\* the blocks one child tag appends
TagBlocks(tag, counter, tr_ok) ==
    IF Skipped(tag) THEN << >>
    ELSE CASE tag.name = "p" ->
                << Block("paragraph", translate_to_gujarati(TagText(tag), tr_ok)),
                   Block("paragraph", TagText(tag)) >>
           [] tag.name = "h2" ->
                << Block("heading_2", translate_to_gujarati(TagText(tag), tr_ok)),
                   Block("heading_2", TagText(tag)) >>
           [] tag.name = "h4" ->
                << Block("heading_4", translate_to_gujarati(TagText(tag), tr_ok)),
                   Block("heading_4", TagText(tag)) >>
           [] tag.name = "ul" -> BulletItems(tag.items, tr_ok)
           [] tag.name = "ol" -> NumberedItems(tag.items, counter, tr_ok)
           [] OTHER -> << >>

\* CounterAfter with the increment lost: every ol starts again at its entry value
CounterAfter_NoIncrement(tag, counter) == counter

\* numbered_list_counter after one child tag
CounterAfter(tag, counter) ==
    IF ~Skipped(tag) /\ tag.name = "ol" THEN counter + Len(tag.items) ELSE counter

\* the content loop over the direct children, from child i on
RECURSIVE ChildBlocks(_, _, _, _)
ChildBlocks(children, i, counter, tr_ok) ==
    IF i > Len(children) THEN << >>
    ELSE TagBlocks(children[i], counter, tr_ok)
           \o ChildBlocks(children, i + 1, CounterAfter(children[i], counter), tr_ok)

\* numbered_list_counter = 1
FirstOrdinal == 1

\* image_url: the src of the featured image when it is truthy, else None
ImageUrl(page) == IF Truthy(page.image) THEN page.image ELSE "None"

scrape_and_get_content(page, tr_ok) ==
    IF ~page.fetch_ok \/ ~page.main_content \/ ~page.heading
      THEN [content_list |-> << >>, category |-> "None"]
    ELSE [ content_list |->
               << HeadingBlock(translate_to_gujarati(page.heading_text, tr_ok), ImageUrl(page)),
                  HeadingBlock(page.heading_text, "None") >>
                 \o ChildBlocks(page.children, 1, FirstOrdinal, tr_ok),
           category |-> DetectCategory(page.children) ]

(***************************************************************************)
(* create_styled_document: the body of the local artifact.                 *)
(***************************************************************************)
Paragraph(style, text) == [style |-> style, text |-> text]

\* doc.add_section(start_type): the section break appended to the body
add_section(start_type) == [style |-> "add_section", text |-> start_type]

\* content.get('image') is truthy
HasImage(content) == content.type = "heading" /\ Truthy(content.image)

\* the positions of content_list whose image is downloaded
ImageBlocks(content_list) == {i \in 1..Len(content_list) : HasImage(content_list[i])}

\* what one content block adds to the body; image_ok: download_and_convert_image
\* returned the picture of this block
BlockParagraphs(content, image_ok) ==
    CASE content.type = "heading" ->
            << Paragraph("CoolHeading1", content.text) >>
              \o (IF HasImage(content) /\ image_ok
                    THEN << Paragraph("ImageParagraph", content.image) >> ELSE << >>)
              \o (IF HasImage(content)
                    THEN << add_section("CONTINUOUS") >> ELSE << >>)
      [] content.type = "paragraph" -> << Paragraph("CoolParagraph", content.text) >>
      [] content.type = "heading_2" -> << Paragraph("CoolHeading2", content.text) >>
      [] content.type = "heading_4" -> << Paragraph("Heading 4", content.text) >>
      [] content.type = "bullet_list" ->
            << Paragraph("CoolBulletList", "* " \o content.text) >>
      [] content.type = "numbered_list" ->
            << Paragraph("CoolNumberedList",
                         IntStr(content.number) \o ". " \o content.text) >>
      [] OTHER -> << >>

\* the for loop over content_list, from block i on; downloads[i] is the
\* outcome of the download of the image of block i
RECURSIVE ContentParagraphs(_, _, _)
ContentParagraphs(content_list, i, downloads) ==
    IF i > Len(content_list) THEN << >>
    ELSE BlockParagraphs(content_list[i],
                         i \in DOMAIN downloads /\ downloads[i])
           \o ContentParagraphs(content_list, i + 1, downloads)

create_styled_document(content_list, now, downloads) ==
    << Paragraph("CoolTitle", "Current Affairs - " \o strftime_dBY(DateOf(now))) >>
      \o ContentParagraphs(content_list, 1, downloads)

(***************************************************************************)
(* main: grouping by category and the delivery caption.                    *)
(***************************************************************************)
\* category_contents is a dict in insertion order: a sequence of entries
CategoryEntry(category, contents) == [category |-> category, contents |-> contents]

HasCategory(category_contents, category) ==
    \E i \in 1..Len(category_contents) : category_contents[i].category = category

\* AddToCategory that files an article without category under "None"
AddToCategory_Always(category_contents, category, content_list) ==
    IF HasCategory(category_contents, category)
      THEN [i \in 1..Len(category_contents) |->
              IF category_contents[i].category = category
                THEN CategoryEntry(category, category_contents[i].contents \o content_list)
                ELSE category_contents[i]]
    ELSE Append(category_contents, CategoryEntry(category, content_list))

\* "if category: ... category_contents[category].extend(content_list)"
AddToCategory(category_contents, category, content_list) ==
    IF ~Truthy(category) THEN category_contents
    ELSE IF HasCategory(category_contents, category)
      THEN [i \in 1..Len(category_contents) |->
              IF category_contents[i].category = category
                THEN CategoryEntry(category, category_contents[i].contents \o content_list)
                ELSE category_contents[i]]
    ELSE Append(category_contents, CategoryEntry(category, content_list))

\* '\n'.join of the caption lines, one per title
RECURSIVE TitleLines(_)
TitleLines(english_titles) ==
    IF english_titles = << >> THEN ""
    ELSE "> " \o Head(english_titles)
           \o (IF Len(english_titles) > 1 THEN "\n" ELSE "")
           \o TitleLines(Tail(english_titles))

\* the caption; the ribbon emoji with its variation selector is written "RV"
\* (two characters), the pointing hand ">" and the party popper "!"
Caption(english_titles, now) ==
    "RV " \o strftime_dBY(DateOf(now)) \o " Current Affairs RV\n\n"
      \o TitleLines(english_titles) \o "\n\n" \o "! Join us :- @gujtest !"

telegram_caption_limit == 1024

\* range(5)
MaxAttempts == 5

\* SendRetries that also swallows the non-timeout errors
SendRetries_AnyError(outcome) == outcome \in {"timeout", "error"}

\* "except telegram.error.TimedOut": the outcome after which the loop goes on
SendRetries(outcome) == outcome = "timeout"

(***************************************************************************)
(* The dedup ledger (the MongoDB collection) and the site.                 *)
(***************************************************************************)
QuizUrl == "gk/daily-current-affairs-quiz-1"

AllUrls == {"gk/polity-1", "gk/polity-2", "gk/economy", "gk/plain", "gk/broken", QuizUrl}

\* 'daily-current-affairs-quiz' in url
IsQuiz(url) == url = QuizUrl

\* FindOne on a ledger that never reports a hit
FindOne_Never(collection, url) == FALSE

\* collection.find_one({'url': url}) is truthy
FindOne(collection, url) == collection[url] > 0

\* collection.insert_one({'url': url, ...}); the collection counts documents per url
InsertOne(collection, url) == [collection EXCEPT ![url] = @ + 1]

\* a heading long enough for the caption to pass the limit
LongHeading == Repeat("L", 1000)

\* the page behind each article url
Site(url) ==
    CASE url = "gk/polity-1" ->
            [fetch_ok |-> TRUE, main_content |-> TRUE, heading |-> TRUE,
             heading_text |-> "P1", image |-> "img",
             children |-> << Tag("p", "small-font", "Category: Polity", << >>, "Polity"),
                             Tag("p", "", "x", << >>, "None"),
                             Tag("ol", "", "", << "a", "b" >>, "None") >>]
      [] url = "gk/polity-2" ->
            [fetch_ok |-> TRUE, main_content |-> TRUE, heading |-> TRUE,
             heading_text |-> "P2", image |-> "img2",
             children |-> << Tag("ul", "", "", << "c" >>, "None"),
                             Tag("p", "", "Category: Polity", << >>, "None") >>]
      [] url = "gk/economy" ->
            [fetch_ok |-> TRUE, main_content |-> TRUE, heading |-> TRUE,
             heading_text |-> LongHeading, image |-> "None",
             children |-> << Tag("h2", "", "y", << >>, "None"),
                             Tag("p", "small-font", "Category: Economy", << >>, "Economy") >>]
      [] url = "gk/plain" ->
            [fetch_ok |-> TRUE, main_content |-> TRUE, heading |-> TRUE,
             heading_text |-> "N", image |-> "None",
             children |-> << Tag("p", "", "z", << >>, "None") >>]
      [] OTHER -> [NoPage EXCEPT !.fetch_ok = TRUE]

(***************************************************************************)
(* State.                                                                  *)
(***************************************************************************)
VARIABLES
    b_category,   \* SpecBuild: argument category
    b_content,    \* SpecBuild: argument content_list
    b_reads,      \* SpecBuild: values of the successive datetime.now() reads
    b_pc,         \* SpecBuild: "call" before append_to_google_doc ran, then "done"
    b_result,     \* SpecBuild: the batch built by the call
    s_page,       \* SpecScrape: the page behind the url argument
    s_tr_ok,      \* SpecScrape: whether the translation service answers
    s_pc,         \* SpecScrape: "call" before scrape_and_get_content ran, then "done"
    s_result,     \* SpecScrape: the returned (content_list, category)
    collection,   \* the ledger: number of documents stored per url
    pc,           \* per run: where main is
    article_urls, \* per run: what fetch_article_urls returned
    check_pos,    \* per run: position of check_and_insert_urls in urls
    new_urls,     \* per run: new_urls, of check_and_insert_urls and then of main
    scrape_pos,   \* position of main's loop over new_urls
    all_content,
    english_titles,
    category_contents,
    docx,         \* the temporary file: "none", "saved" or "deleted"
    artifact,     \* the body of the document written to the temporary file
    outcomes,     \* send_docx_to_telegram: how each attempt so far ended
    sent_documents, \* documents the channel received
    sent_messages,  \* follow-up messages the channel received
    doc_calls     \* the append_to_google_doc calls made: category, contents, outcome

buildVars == << b_category, b_content, b_reads, b_pc, b_result >>
scrapeVars == << s_page, s_tr_ok, s_pc, s_result >>
ledgerVars == << collection, pc, article_urls, check_pos, new_urls >>
mainVars == << scrape_pos, all_content, english_titles, category_contents, docx, artifact,
               outcomes, sent_documents, sent_messages, doc_calls >>
vars == << buildVars, scrapeVars, ledgerVars, mainVars >>

Runs == 1..MaxRuns

SeqsUpTo(S, n) == UNION {[1..k -> S] : k \in 0..n}

\* the builder's state at "requests = []; index = 1"
EmptyBatch == [title |-> "", requests |-> << >>, index |-> 1]

BuildIdle ==
    /\ b_category = "" /\ b_content = << >> /\ b_reads = [i \in 1..4 |-> 0]
    /\ b_pc = "idle" /\ b_result = EmptyBatch

ScrapeIdle ==
    /\ s_page = NoPage /\ s_tr_ok = TRUE /\ s_pc = "idle" /\ s_result = NoArticle

\* main's locals before "all_content = []"
MainFresh ==
    /\ scrape_pos = 1 /\ all_content = << >> /\ english_titles = << >>
    /\ category_contents = << >> /\ docx = "none" /\ artifact = << >>
    /\ outcomes = << >> /\ sent_documents = 0 /\ sent_messages = 0
    /\ doc_calls = << >>

PipelineIdle ==
    /\ collection = [u \in AllUrls |-> 0]
    /\ pc = [r \in Runs |-> "idle"]
    /\ article_urls = [r \in Runs |-> << >>]
    /\ check_pos = [r \in Runs |-> 1]
    /\ new_urls = [r \in Runs |-> << >>]
    /\ MainFresh

(***************************************************************************)
(* SpecBuild: append_to_google_doc on every bounded content_list and every *)
(* non-decreasing sequence of clock reads.                                 *)
(***************************************************************************)
BuildTexts == {"a", "gu:a"}

BuildBlocks ==
    [type : {"paragraph", "heading_2", "heading_4", "bullet_list"}, text : BuildTexts]
      \cup [type : {"heading"}, text : BuildTexts, image : {"None"}]
      \cup [type : {"numbered_list"}, text : {"a"}, number : {1, 10}]

InitBuild ==
    /\ b_category = "Polity"
    /\ b_content \in SeqsUpTo(BuildBlocks, MaxBlocks)
    /\ b_reads \in ClockReads
    /\ b_pc = "call"
    /\ b_result = EmptyBatch
    /\ ScrapeIdle
    /\ PipelineIdle

Build ==
    /\ b_pc = "call"
    /\ b_pc' = "done"
    /\ b_result' = append_to_google_doc(b_category, b_content, b_reads)
    /\ UNCHANGED << b_category, b_content, b_reads, scrapeVars, ledgerVars, mainVars >>

NextBuild == Build

SpecBuild == InitBuild /\ [][NextBuild]_vars

(***************************************************************************)
(* Properties of the request list built by append_to_google_doc.           *)
(***************************************************************************)
IsInsert(q) == q.op = "insertText"

IsStyle(q) == q.op \in {"updateTextStyle", "createParagraphBullets"}

\* the nearest insertText request strictly before position i (0 if none)
RECURSIVE InsertBefore(_, _)
InsertBefore(requests, i) ==
    IF i <= 1 THEN 0
    ELSE IF IsInsert(requests[i - 1]) THEN i - 1
    ELSE InsertBefore(requests, i - 1)

\* total length of the texts of the insertText requests before position i
RECURSIVE InsertedBefore(_, _)
InsertedBefore(requests, i) ==
    IF i <= 1 THEN 0
    ELSE InsertedBefore(requests, i - 1)
           + (IF IsInsert(requests[i - 1]) THEN Len(requests[i - 1].text) ELSE 0)

\* positions of the style requests of the content blocks (the title's is request 2)
BlockStylePositions(requests) ==
    {i \in 1..Len(requests) : IsStyle(requests[i]) /\ i > 3}

\* C1: the style range (updateTextStyle, and createParagraphBullets for list
\* items) of every content block starts where the previous insertion (the
\* previous block, or the leading separator) ended and spans exactly the text
\* inserted for the block, prefix and trailing newlines included; every block
\* has its insertion, and every insertion of a block is followed by its style.
C1_StyleRangesAbut ==
    b_pc = "done" =>
        LET requests == b_result.requests
            styled == BlockStylePositions(requests)
        IN /\ \A i \in styled :
                LET own == InsertBefore(requests, i)
                    prev == InsertBefore(requests, own)
                IN /\ own > 3 /\ prev >= 3
                   /\ requests[i].startIndex
                        = requests[prev].index + Len(requests[prev].text)
                   /\ requests[i].endIndex
                        = requests[i].startIndex + Len(requests[own].text)
           /\ Cardinality({i \in styled : requests[i].op = "updateTextStyle"})
                = Len(b_content)
           /\ Cardinality({i \in styled : requests[i].op = "createParagraphBullets"})
                = Cardinality({k \in 1..Len(b_content) :
                                 b_content[k].type \in {"bullet_list", "numbered_list"}})
           /\ \A i \in 4..(Len(requests) - 1) :
                IsInsert(requests[i]) => IsStyle(requests[i + 1])

\* a build of three blocks with a paragraph, a bullet item and list item number 10
C1_Witness ==
    /\ b_pc = "done"
    /\ Len(b_content) = 3
    /\ b_content[1].type = "paragraph"
    /\ b_content[2].type = "bullet_list"
    /\ b_content[3].type = "numbered_list" /\ b_content[3].number = 10
    /\ Len(b_result.requests) = 12

\* C2: every insertText request of the batch is addressed at 1 plus the total
\* length of the texts inserted before it, whatever the successive clock reads
\* return.
C2_CursorCountsInserted ==
    b_pc = "done" =>
        \A i \in 1..Len(b_result.requests) :
            IsInsert(b_result.requests[i]) =>
                b_result.requests[i].index = 1 + InsertedBefore(b_result.requests, i)

\* C3: the title is inserted at 1, its style range is [1, 1 + len(title) + 1),
\* covering the trailing newline, and ends where the separator is inserted.
C3_TitleRange ==
    b_pc = "done" =>
        LET requests == b_result.requests
        IN /\ IsInsert(requests[1]) /\ requests[1].index = 1
           /\ requests[2].op = "updateTextStyle"
           /\ requests[2].startIndex = 1
           /\ requests[2].endIndex = 1 + Len(requests[1].text)
           /\ IsInsert(requests[3])
           /\ requests[3].index = requests[2].endIndex

(***************************************************************************)
(* SpecScrape: scrape_and_get_content on every bounded page.               *)
(***************************************************************************)
ScrapeTags ==
    { Tag("p", "", "x", << >>, "None"),
      Tag("h2", "", "y", << >>, "None"),
      Tag("h4", "", "z", << >>, "None"),
      Tag("ul", "", "", << "a", "b" >>, "None"),
      Tag("ol", "", "", << "a" >>, "None"),
      Tag("ol", "", "", << "a", "b" >>, "None"),
      Tag("p", "small-font", "Category: Polity", << >>, "Polity"),
      Tag("p", "small-font", "Category:", << >>, ""),
      Tag("p", "", "Category: Economy", << >>, "None"),
      Tag("div", "prenext", "nav", << >>, "None") }

GoodPage(children, image) ==
    [fetch_ok |-> TRUE, main_content |-> TRUE, heading |-> TRUE,
     heading_text |-> "H", image |-> image, children |-> children]

ScrapePages ==
    { GoodPage(c, "img") : c \in SeqsUpTo(ScrapeTags, MaxTags) }
      \cup { GoodPage(c, "") : c \in SeqsUpTo(ScrapeTags, 1) }
      \cup { NoPage,
             [NoPage EXCEPT !.fetch_ok = TRUE],
             [NoPage EXCEPT !.fetch_ok = TRUE, !.main_content = TRUE] }

InitScrape ==
    /\ s_page \in ScrapePages
    /\ s_tr_ok \in BOOLEAN
    /\ s_pc = "call"
    /\ s_result = NoArticle
    /\ BuildIdle
    /\ PipelineIdle

Scrape ==
    /\ s_pc = "call"
    /\ s_pc' = "done"
    /\ s_result' = scrape_and_get_content(s_page, s_tr_ok)
    /\ UNCHANGED << s_page, s_tr_ok, buildVars, ledgerVars, mainVars >>

\* main for the one scraped article: a non-empty content_list with a category
\* becomes category_contents[category], which the loop over the categories
\* hands to append_to_google_doc
AppendScraped ==
    /\ s_pc = "done"
    /\ b_pc = "idle"
    /\ s_result.content_list # << >>
    /\ Truthy(s_result.category)
    /\ \E reads \in ClockReads :
          /\ b_reads' = reads
          /\ b_result' = append_to_google_doc(s_result.category, s_result.content_list, reads)
    /\ b_category' = s_result.category
    /\ b_content' = s_result.content_list
    /\ b_pc' = "done"
    /\ UNCHANGED << scrapeVars, ledgerVars, mainVars >>

NextScrape == Scrape \/ AppendScraped

SpecScrape == InitScrape /\ [][NextScrape]_vars
(***************************************************************************)
(* The pipeline: main, with check_and_insert_urls,                         *)
(* send_docx_to_telegram and the loop over the categories step by step.    *)
(* A step ends at a call of an external service (the ledger, the site, the *)
(* channel, the document service).  pc is "idle" before main starts,       *)
(* "returned" after an early return, "raised" after main re-raised an      *)
(* exception and "done" after "Temporary file deleted".                    *)
(*                                                                         *)
(* In the pipeline the clock stands at StartDate and the translation       *)
(* service answers; the clock reads of append_to_google_doc and failing    *)
(* translations are covered by SpecBuild and SpecScrape.  A doc_calls      *)
(* entry records the arguments of one append_to_google_doc call and how    *)
(* the call ended; the batch it submits is append_to_google_doc(category,  *)
(* contents, reads).  processed_date of a ledger entry is left out.         *)
(***************************************************************************)
Terminal == {"returned", "raised", "done"}

UrlLists == SeqsUpTo(AllUrls, MaxUrls)

SendOutcomes == {"ok", "timeout", "error"}

\* how one append_to_google_doc call ends: the create or the batchUpdate may
\* raise HttpError (caught and logged) or another exception (not caught)
DocOutcomes == {"ok", "create_HttpError", "batch_HttpError", "create_error", "batch_error"}

DocRaises(outcome) == outcome \in {"create_error", "batch_error"}

MainReset ==
    /\ scrape_pos' = 1 /\ all_content' = << >> /\ english_titles' = << >>
    /\ category_contents' = << >> /\ docx' = "none" /\ artifact' = << >>
    /\ outcomes' = << >> /\ sent_documents' = 0 /\ sent_messages' = 0
    /\ doc_calls' = << >>

\* pc once check_and_insert_urls is through with urls[check_pos]
AfterUrl(r) == IF check_pos[r] + 1 > Len(article_urls[r]) THEN "checked" ELSE "find"

\* main starts: fetch_article_urls, the early return, the call of check_and_insert_urls
Fetch(r) ==
    /\ pc[r] = "idle"
    /\ \E urls \in UrlLists :
        /\ article_urls' = [article_urls EXCEPT ![r] = urls]
        /\ pc' = [pc EXCEPT ![r] = IF urls = << >> THEN "returned" ELSE "find"]
    /\ UNCHANGED << collection, check_pos, new_urls, mainVars, buildVars, scrapeVars >>

\* "if 'daily-current-affairs-quiz' in url: continue"
SkipQuiz(r) ==
    /\ pc[r] = "find"
    /\ IsQuiz(article_urls[r][check_pos[r]])
    /\ check_pos' = [check_pos EXCEPT ![r] = @ + 1]
    /\ pc' = [pc EXCEPT ![r] = AfterUrl(r)]
    /\ UNCHANGED << collection, article_urls, new_urls, mainVars, buildVars, scrapeVars >>

\* collection.find_one answers; a miss appends the url to new_urls
Find(r) ==
    /\ pc[r] = "find"
    /\ ~IsQuiz(article_urls[r][check_pos[r]])
    /\ IF FindOne(collection, article_urls[r][check_pos[r]])
         THEN /\ check_pos' = [check_pos EXCEPT ![r] = @ + 1]
              /\ pc' = [pc EXCEPT ![r] = AfterUrl(r)]
              /\ UNCHANGED new_urls
         ELSE /\ new_urls' = [new_urls EXCEPT ![r] = Append(@, article_urls[r][check_pos[r]])]
              /\ pc' = [pc EXCEPT ![r] = "insert"]
              /\ UNCHANGED check_pos
    /\ UNCHANGED << collection, article_urls, mainVars, buildVars, scrapeVars >>

\* collection.find_one raises (the ledger is unreachable): the exception leaves
\* check_and_insert_urls, whose new_urls is lost, and main re-raises it
FindFails(r) ==
    /\ pc[r] = "find"
    /\ ~IsQuiz(article_urls[r][check_pos[r]])
    /\ pc' = [pc EXCEPT ![r] = "raised"]
    /\ new_urls' = [new_urls EXCEPT ![r] = << >>]
    /\ UNCHANGED << collection, article_urls, check_pos, mainVars, buildVars, scrapeVars >>

\* collection.insert_one stores the url
Insert(r) ==
    /\ pc[r] = "insert"
    /\ collection' = InsertOne(collection, article_urls[r][check_pos[r]])
    /\ check_pos' = [check_pos EXCEPT ![r] = @ + 1]
    /\ pc' = [pc EXCEPT ![r] = AfterUrl(r)]
    /\ UNCHANGED << article_urls, new_urls, mainVars, buildVars, scrapeVars >>

\* collection.insert_one raises
InsertFails(r) ==
    /\ pc[r] = "insert"
    /\ pc' = [pc EXCEPT ![r] = "raised"]
    /\ new_urls' = [new_urls EXCEPT ![r] = << >>]
    /\ UNCHANGED << collection, article_urls, check_pos, mainVars, buildVars, scrapeVars >>

\* "if not new_urls: return", else the loop over new_urls starts
AfterCheck(r) ==
    /\ pc[r] = "checked"
    /\ pc' = [pc EXCEPT ![r] = IF new_urls[r] = << >> THEN "returned" ELSE "scrape"]
    /\ UNCHANGED << collection, article_urls, check_pos, new_urls, mainVars,
                    buildVars, scrapeVars >>

\* one round of the loop over new_urls; after the last one "if not all_content: return"
ScrapeUrl(r) ==
    /\ pc[r] = "scrape"
    /\ LET scraped == scrape_and_get_content(Site(new_urls[r][scrape_pos]), TRUE)
           content_list == scraped.content_list
       IN /\ all_content' = all_content \o content_list
          /\ english_titles' = IF content_list # << >>
                                 THEN Append(english_titles, content_list[2].text)
                                 ELSE english_titles
          /\ category_contents' = IF content_list # << >>
                                    THEN AddToCategory(category_contents, scraped.category,
                                                       content_list)
                                    ELSE category_contents
          /\ pc' = [pc EXCEPT ![r] =
                      IF scrape_pos + 1 <= Len(new_urls[r]) THEN "scrape"
                      ELSE IF all_content \o content_list = << >> THEN "returned"
                      ELSE "render"]
    /\ scrape_pos' = scrape_pos + 1
    /\ UNCHANGED << collection, article_urls, check_pos, new_urls, docx, artifact, outcomes,
                    sent_documents, sent_messages, doc_calls, buildVars, scrapeVars >>

\* create_styled_document and doc.save to the temporary file
Render(r) ==
    /\ pc[r] = "render"
    /\ \E downloads \in [ImageBlocks(all_content) -> BOOLEAN] :
         artifact' = create_styled_document(all_content, 0, downloads)
    /\ docx' = "saved"
    /\ pc' = [pc EXCEPT ![r] = "send"]
    /\ UNCHANGED << collection, article_urls, check_pos, new_urls, scrape_pos, all_content,
                    english_titles, category_contents, outcomes, sent_documents,
                    sent_messages, doc_calls, buildVars, scrapeVars >>

\* one round of the for loop of send_docx_to_telegram: send_document and, for a
\* caption over the limit, send_message; after the last timeout the else branch
\* logs and the function returns
SendAttempt(r) ==
    /\ pc[r] = "send"
    /\ \E doc_out \in SendOutcomes, msg_out \in SendOutcomes :
        LET long == Len(Caption(english_titles, 0)) > telegram_caption_limit
            outcome == IF doc_out # "ok" THEN doc_out
                       ELSE IF long THEN msg_out ELSE "ok"
        IN /\ sent_documents' = sent_documents + (IF doc_out = "ok" THEN 1 ELSE 0)
           /\ sent_messages' = sent_messages
                                 + (IF doc_out = "ok" /\ long /\ msg_out = "ok" THEN 1 ELSE 0)
           /\ outcomes' = Append(outcomes, outcome)
           /\ pc' = [pc EXCEPT ![r] =
                       IF outcome = "ok" THEN "service"
                       ELSE IF SendRetries(outcome)
                         THEN (IF Len(outcomes) + 1 < MaxAttempts THEN "send" ELSE "service")
                       ELSE "raised"]
    /\ UNCHANGED << collection, article_urls, check_pos, new_urls, scrape_pos, all_content,
                    english_titles, category_contents, docx, artifact, doc_calls,
                    buildVars, scrapeVars >>

\* get_google_docs_service; without categories the loop is skipped and the
\* temporary file is unlinked
GetService(r) ==
    /\ pc[r] = "service"
    /\ \E service_ok \in BOOLEAN :
        IF ~service_ok
          THEN pc' = [pc EXCEPT ![r] = "raised"] /\ UNCHANGED docx
        ELSE IF category_contents = << >>
          THEN pc' = [pc EXCEPT ![r] = "done"] /\ docx' = "deleted"
        ELSE pc' = [pc EXCEPT ![r] = "docs"] /\ UNCHANGED docx
    /\ UNCHANGED << collection, article_urls, check_pos, new_urls, scrape_pos, all_content,
                    english_titles, category_contents, artifact, outcomes, sent_documents,
                    sent_messages, doc_calls, buildVars, scrapeVars >>

\* one round of the loop over category_contents: one append_to_google_doc call;
\* after the last one the temporary file is unlinked
AppendDoc(r) ==
    /\ pc[r] = "docs"
    /\ \E outcome \in DocOutcomes :
        LET entry == category_contents[Len(doc_calls) + 1]
        IN /\ doc_calls' = Append(doc_calls, [category |-> entry.category,
                                              contents |-> entry.contents,
                                              outcome |-> outcome])
           /\ IF DocRaises(outcome)
                THEN pc' = [pc EXCEPT ![r] = "raised"] /\ UNCHANGED docx
              ELSE IF Len(doc_calls) + 1 = Len(category_contents)
                THEN pc' = [pc EXCEPT ![r] = "done"] /\ docx' = "deleted"
              ELSE UNCHANGED << pc, docx >>
    /\ UNCHANGED << collection, article_urls, check_pos, new_urls, scrape_pos, all_content,
                    english_titles, category_contents, artifact, outcomes, sent_documents,
                    sent_messages, buildVars, scrapeVars >>

\* main is over and the process exits; a later run starts from "idle" with
\* nothing but the ledger left of this one
Exit(r) ==
    /\ pc[r] \in Terminal
    /\ pc' = [pc EXCEPT ![r] = "idle"]
    /\ article_urls' = [article_urls EXCEPT ![r] = << >>]
    /\ check_pos' = [check_pos EXCEPT ![r] = 1]
    /\ new_urls' = [new_urls EXCEPT ![r] = << >>]
    /\ MainReset
    /\ UNCHANGED << collection, buildVars, scrapeVars >>

Init ==
    /\ PipelineIdle
    /\ BuildIdle
    /\ ScrapeIdle

\* Spec: one process runs main, again and again, on the same ledger
FirstRun == CHOOSE r \in Runs : \A q \in Runs : r <= q

Next ==
    \E r \in {FirstRun} :
        \/ Fetch(r)
        \/ Exit(r)
        \/ SkipQuiz(r)
        \/ Find(r)
        \/ FindFails(r)
        \/ Insert(r)
        \/ InsertFails(r)
        \/ AfterCheck(r)
        \/ ScrapeUrl(r)
        \/ Render(r)
        \/ SendAttempt(r)
        \/ GetService(r)
        \/ AppendDoc(r)

Spec == Init /\ [][Next]_vars

(***************************************************************************)
(* SpecConc: runs that overlap in check_and_insert_urls on one ledger.     *)
(***************************************************************************)
NextConc ==
    \E r \in Runs :
        \/ Fetch(r)
        \/ SkipQuiz(r)
        \/ Find(r)
        \/ FindFails(r)
        \/ Insert(r)
        \/ InsertFails(r)

SpecConc == Init /\ [][NextConc]_vars

(***************************************************************************)
(* Properties of the pipeline.                                             *)
(***************************************************************************)
NoDup(seq) == \A a, b \in 1..Len(seq) : seq[a] = seq[b] => a = b

Elems(seq) == {seq[a] : a \in 1..Len(seq)}

\* C4: with runs overlapping in check_and_insert_urls the check and the insert
\* of a url act as one step: the ledger never holds two entries for a url and
\* no url is returned as new by two runs.
C4_AtomicCheckInsert ==
    /\ \A u \in AllUrls : collection[u] <= 1
    /\ \A r1, r2 \in Runs :
         r1 # r2 /\ pc[r1] = "checked" /\ pc[r2] = "checked"
            => Elems(new_urls[r1]) \cap Elems(new_urls[r2]) = {}

\* a run whose non-empty url list yielded no new url and which returned
NothingNew(r) ==
    /\ pc[r] = "returned"
    /\ new_urls[r] = << >>
    /\ \E a \in 1..Len(article_urls[r]) : ~IsQuiz(article_urls[r][a])

\* C5: in runs that follow one another, a url is appended to new_urls only
\* when the ledger does not hold it, so a url some call recorded is never
\* returned as new again, neither by a later call nor at a later place of the
\* same list, and the ledger holds it once; a run that found nothing new
\* returned without extraction, rendering, delivery or document creation.
C5_Idempotent ==
    [][\A r \in Runs :
         /\ (new_urls'[r] # new_urls[r] /\ new_urls'[r] # << >>)
               => collection[new_urls'[r][Len(new_urls'[r])]] = 0
         /\ NoDup(new_urls'[r])
         /\ \A u \in AllUrls : collection'[u] <= 1
         /\ \A u \in Elems(new_urls'[r]) : pc'[r] \notin {"insert"} => collection'[u] = 1
         /\ NothingNew(r)' => MainFresh']_vars

\* a run all of whose urls an earlier run recorded, back from main
C5_Witness ==
    \E r \in Runs :
        /\ NothingNew(r)
        /\ Len(article_urls[r]) = 2
        /\ \A a \in 1..2 : collection[article_urls[r][a]] = 1
        /\ article_urls[r][1] # article_urls[r][2]

\* C6: send_docx_to_telegram makes at most 5 attempts and sends the document
\* at most 5 times; every attempt but the last ended in a timeout; an attempt
\* that ended in another error is the last one and main raised; an attempt
\* that completed is the last one; the loop goes on only after timeouts.
C6_BoundedRetry ==
    /\ Len(outcomes) <= 5
    /\ sent_documents <= Len(outcomes)
    /\ \A i \in 1..(Len(outcomes) - 1) : outcomes[i] = "timeout"
    /\ \A r \in Runs :
         /\ pc[r] = "send" => /\ Len(outcomes) < 5
                              /\ \A i \in 1..Len(outcomes) : outcomes[i] = "timeout"
         /\ (pc[r] # "idle" /\ outcomes # << >> /\ outcomes[Len(outcomes)] = "error")
               => pc[r] = "raised" /\ doc_calls = << >> /\ docx = "saved"
         /\ (pc[r] # "idle" /\ outcomes # << >> /\ outcomes[Len(outcomes)] = "ok")
               => pc[r] \in {"service", "docs", "done", "raised"}

\* two timeouts, then an attempt that fails with another error
C6_Witness ==
    /\ outcomes = << "timeout", "timeout", "error" >>
    /\ \E r \in Runs : pc[r] = "raised"

\* C7: when every delivery attempt timed out the run aborts with an error:
\* main raises and creates no remote document.
C7_ExhaustedIsFatal ==
    \A r \in Runs :
        (/\ pc[r] # "idle"
         /\ Len(outcomes) = 5
         /\ \A i \in 1..5 : outcomes[i] = "timeout")
            => pc[r] = "raised" /\ doc_calls = << >>

\* C8: whatever fails in the document calls, append_to_google_doc is invoked
\* once for each category of category_contents.
C8_EveryCategoryInvoked ==
    \A r \in Runs :
        (pc[r] \in {"done", "raised"} /\ doc_calls # << >>)
            => /\ Len(doc_calls) = Len(category_contents)
               /\ \A i \in 1..Len(doc_calls) :
                    doc_calls[i].category = category_contents[i].category

\* what the site yields for each url
ScrapedSite == [url \in AllUrls |-> scrape_and_get_content(Site(url), TRUE)]

Scraped(url) == ScrapedSite[url]

\* the blocks of the first n urls, in order
RECURSIVE BlocksOf(_, _)
BlocksOf(urls, n) ==
    IF n = 0 THEN << >> ELSE BlocksOf(urls, n - 1) \o Scraped(urls[n]).content_list

\* the blocks of those of the first n urls whose article has the category
RECURSIVE BlocksIn(_, _, _)
BlocksIn(urls, n, category) ==
    IF n = 0 THEN << >>
    ELSE BlocksIn(urls, n - 1, category)
           \o (IF Scraped(urls[n]).category = category
                 THEN Scraped(urls[n]).content_list ELSE << >>)

IsTextParagraph(p) == p.style \notin {"CoolTitle", "ImageParagraph", "add_section"}

\* C9: after each round of main's loop all_content is the concatenation of the
\* block sequences of the urls processed so far, in order; category_contents
\* holds one entry per detected category, with the blocks of exactly the
\* articles of that category, in order, and no entry for articles without a
\* category; append_to_google_doc is called with these entries only, so never
\* when there is no category; the saved artifact has one text paragraph per
\* block, besides its title, pictures and section breaks.
C9_Grouping ==
    \A r \in Runs :
        pc[r] \in {"scrape", "render", "send", "service", "docs", "done"} =>
            LET n == scrape_pos - 1
                urls == new_urls[r]
            IN /\ all_content = BlocksOf(urls, n)
               /\ \A i \in 1..Len(category_contents) :
                    /\ Truthy(category_contents[i].category)
                    /\ category_contents[i].contents
                         = BlocksIn(urls, n, category_contents[i].category)
                    /\ category_contents[i].contents # << >>
                    /\ \A i2 \in 1..Len(category_contents) :
                         category_contents[i2].category = category_contents[i].category
                            => i2 = i
               /\ \A a \in 1..n :
                    (Truthy(Scraped(urls[a]).category) /\ Scraped(urls[a]).content_list # << >>)
                       => HasCategory(category_contents, Scraped(urls[a]).category)
               /\ Len(doc_calls) <= Len(category_contents)
               /\ \A i \in 1..Len(doc_calls) :
                    /\ doc_calls[i].category = category_contents[i].category
                    /\ doc_calls[i].contents = category_contents[i].contents
               /\ docx # "none" =>
                    LET text == SelectSeq(artifact, IsTextParagraph)
                    IN /\ Len(text) = Len(all_content)
                       /\ \A i \in 1..Len(text) :
                            all_content[i].type \notin {"bullet_list", "numbered_list"}
                               => text[i].text = all_content[i].text

\* a finished run of two articles, the first without a category: one remote
\* document, both articles in the artifact
C9_Witness ==
    \E r \in Runs :
        /\ pc[r] = "done"
        /\ new_urls[r] = << "gk/plain", "gk/polity-1" >>
        /\ Len(category_contents) = 1
        /\ Len(doc_calls) = 1
        /\ Len(all_content) = 12
        /\ docx = "deleted"

(***************************************************************************)
(* Properties of the content_list returned by scrape_and_get_content.      *)
(***************************************************************************)
IsNumbered(content) == content.type = "numbered_list"

\* the li texts of the ol children the content loop visits, in page order
RECURSIVE OrderedItems(_)
OrderedItems(children) ==
    IF children = << >> THEN << >>
    ELSE (IF Head(children).name = "ol" /\ ~Skipped(Head(children))
            THEN Head(children).items ELSE << >>)
           \o OrderedItems(Tail(children))

\* C10: within one article the k-th ordered-list item in document order, over
\* all the ordered lists of the article, yields two numbered_list blocks, the
\* translated copy then the original, both numbered k: ordinals start at 1,
\* are shared by the two language copies and go up by one per item.
C10_Ordinals ==
    s_pc = "done" /\ s_result.content_list # << >> =>
        LET numbered == SelectSeq(s_result.content_list, IsNumbered)
            items == OrderedItems(s_page.children)
        IN /\ Len(numbered) = 2 * Len(items)
           /\ \A k \in 1..Len(items) :
                /\ numbered[2 * k - 1].number = k
                /\ numbered[2 * k].number = k
                /\ numbered[2 * k].text = items[k]
                /\ numbered[2 * k - 1].text = translate_to_gujarati(items[k], s_tr_ok)

\* an article with two separate ordered lists, three items in all
C10_Witness ==
    /\ s_pc = "done"
    /\ Len(s_page.children) = 3
    /\ s_page.children[1].name = "ol" /\ Len(s_page.children[1].items) = 2
    /\ s_page.children[2].name = "p"
    /\ s_page.children[3].name = "ol"
    /\ Len(SelectSeq(s_result.content_list, IsNumbered)) = 6
    /\ s_result.content_list[Len(s_result.content_list)].number = 3

(***************************************************************************)
(* The batch of one article with a heading, a paragraph and a two-item     *)
(* bulleted list.                                                          *)
(***************************************************************************)
\* the children the content loop visits
Visited(children) == SelectSeq(children, LAMBDA tag : ~Skipped(tag))

\* the article of the scenario: besides its h1 heading, the content div holds
\* one paragraph and one bulleted list of two items, in either order
HeadingParagraphTwoBullets(page) ==
    /\ page.fetch_ok /\ page.main_content /\ page.heading
    /\ LET v == Visited(page.children)
       IN /\ Len(v) = 2
          /\ \E i \in 1..2 : v[i].name = "p" /\ v[3 - i].name = "ul"
          /\ \A i \in 1..2 : v[i].name = "ul" => Len(v[i].items) = 2

IsStyleOp(request) == request.op \in {"updateTextStyle", "createParagraphBullets"}

IsTextStyle(request) == request.op = "updateTextStyle"

IsBullets(request) == request.op = "createParagraphBullets"

\* the batch starts with the title insert and its style, then the separator
\* insert, and ends with the trailing separator insert; between them there
\* are n content inserts, and the batch holds m style operations in all
BatchShape(requests, n, m) ==
    /\ Len(requests) >= 4
    /\ IsInsert(requests[1]) /\ requests[1].index = 1
    /\ IsTextStyle(requests[2]) /\ requests[2].style = "title"
    /\ IsInsert(requests[3]) /\ requests[3].text = Repeat("-", 50) \o "\n"
    /\ IsInsert(requests[Len(requests)])
    /\ requests[Len(requests)].text = "\n" \o Repeat("-", 50) \o "\n\n"
    /\ Len(SelectSeq(requests, IsInsert)) = 3 + n
    /\ Len(SelectSeq(requests, IsStyleOp)) = m

\* the batch of the scenario's article has been built
ScenarioBuilt == s_pc = "done" /\ b_pc = "done" /\ HeadingParagraphTwoBullets(s_page)

\* C12 as stated: the batch of the scenario's article is the title insert,
\* the separator insert, 6 content inserts and the trailing separator
\* insert, with 8 style operations in total.
C12_SixInsertsEightStyles ==
    ScenarioBuilt => BatchShape(b_result.requests, 6, 8)

\* C12: the batch of the scenario's article is the title insert, the
\* separator insert, 8 content inserts (two heading, two paragraph and four
\* bullet blocks: every li yields a translated and an original block) and
\* the trailing separator insert, with 13 style operations in total: nine
\* updateTextStyle (the title and every content block) and four
\* createParagraphBullets (every bullet block).
C12_EightInsertsThirteenStyles ==
    ScenarioBuilt =>
        /\ Len(b_content) = 8
        /\ BatchShape(b_result.requests, 8, 13)
        /\ Len(SelectSeq(b_result.requests, IsTextStyle)) = 9
        /\ Len(SelectSeq(b_result.requests, IsBullets)) = 4
        /\ Len(b_result.requests) = 24

\* the scenario's article, category Polity, list before paragraph, translated
C12_Witness ==
    /\ ScenarioBuilt
    /\ s_tr_ok
    /\ b_category = "Polity"
    /\ Len(s_page.children) = 3
    /\ s_page.children[2].name = "ul"
    /\ s_page.children[3].name = "p"
    /\ b_content[3].type = "bullet_list" /\ b_content[3].text = "gu:a"
    /\ b_content[8].type = "paragraph" /\ b_content[8].text = "x"

(***************************************************************************)
(* Properties of the ledger fallback, the temporary file and the delivery. *)
(***************************************************************************)
\* main raised before anything was rendered or delivered: the exception came
\* out of check_and_insert_urls
AbortedInCheck(r) == pc[r] = "raised" /\ docx = "none" /\ outcomes = << >>

\* C11: an unreachable ledger does not abort the run: no exception of
\* find_one or insert_one leaves check_and_insert_urls, and the call returns
\* every non-excluded url of the list as new.
C11_LedgerFallback ==
    \A r \in Runs :
        /\ ~AbortedInCheck(r)
        /\ (pc[r] = "checked" /\ \A u \in AllUrls : collection[u] = 0)
              => \A a \in 1..Len(article_urls[r]) :
                   ~IsQuiz(article_urls[r][a])
                      => article_urls[r][a] \in Elems(new_urls[r])
\* some attempt of send_docx_to_telegram ended without an exception
Delivered == \E i \in 1..Len(outcomes) : outcomes[i] = "ok"

\* C13: in every finished run that saved the temporary file, the file is
\* removed if the delivery succeeded and is not removed if no delivery
\* attempt succeeded.
C13_FileLifetime ==
    \A r \in Runs :
        (pc[r] \in Terminal /\ docx # "none") => (Delivered <=> docx = "deleted")

\* C14: in one execution of send_docx_to_telegram the document is sent to
\* the channel at most once: after a send_document call has succeeded no
\* later attempt sends the document again.
C14_DocumentSentOnce == sent_documents <= 1
====
